---- MODULE Spec2Model ----
(***************************************************************************)
(* A model of mirror_playlists.py: the playlist loop of main() (fetch,     *)
(* rewrite tvg-logo URLs, collect icon mappings in the dict                *)
(* original_icons) and the download phase run_download_worker() (batches   *)
(* on a thread pool, the SIGALRM deadline, the as_completed harvest loop). *)
(*                                                                         *)
(* Strings are modelled structurally.  A URL "s://h/p1/p2/.../pn" is the   *)
(* record [scheme |-> s, host |-> h, segs |-> <<p1, ..., pn>>] whose       *)
(* segments are non-empty and hold no "/".  A playlist line is the record  *)
(* [logo |-> the value of its tvg-logo attribute (NoUrl when it has none), *)
(* rest |-> the other URL-shaped tokens of the line].  A filesystem path   *)
(* is the sequence of its parts.                                           *)
(***************************************************************************)
EXTENDS Naturals, Sequences, FiniteSets

\* ------------------------------------------------------------ bounds
\* Number of entries of PLAYLIST_URLS (3 in the source, scaled down).
NumPlaylists == 2
\* batch_size of run_download_worker (50 in the source, scaled down).
batch_size == 2
\* ICON_DOWNLOAD_WORKERS, the pool's max_workers (50 in the source, scaled down).
ICON_DOWNLOAD_WORKERS == 2

\* ------------------------------------------------------------ URLs and lines
NoUrl == [scheme |-> "", host |-> "", segs |-> <<>>]

Url(s, h, p) == [scheme |-> s, host |-> h, segs |-> p]

\* ICONS_SQR_DIR and ICONS_RECT_DIR, as path parts.
ICONS_SQR_DIR == <<"img">>
ICONS_RECT_DIR == <<"img2">>

\* NEW_ICONS_BASE_URL_SQR followed by icon_path.
NewIconUrl(icon_path) ==
    Url("https", "raw.githubusercontent.com",
        <<"KocourKuba", "epgone_mirror", "master", "img">> \o icon_path)

\* re.search(r'tvg-logo="(https?://epg\.one/img/([^"]+))"', line) succeeds.
Matches(u) ==
    /\ u.scheme \in {"http", "https"}
    /\ u.host = "epg.one"
    /\ Len(u.segs) >= 2
    /\ u.segs[1] = "img"

\* match.group(2): what follows "/img/".
IconPath(u) == Tail(u.segs)

\* str.replace("/img/", "/img2/") on the segments from position k on: every
\* non-overlapping occurrence, left to right.  A segment "img" is an occurrence
\* when a "/" follows it (it is not the last) and the "/" before it was not
\* consumed by the occurrence just before (free).
RECURSIVE ReplaceFrom(_, _, _)
ReplaceFrom(segs, k, free) ==
    IF k > Len(segs) THEN <<>>
    ELSE IF segs[k] = "img" /\ k < Len(segs) /\ free
         THEN <<"img2">> \o ReplaceFrom(segs, k + 1, FALSE)
         ELSE <<segs[k]>> \o ReplaceFrom(segs, k + 1, TRUE)

\* old_icon_url.replace("/img/", "/img2/")
ReplaceImg(u) == Url(u.scheme, u.host, ReplaceFrom(u.segs, 1, TRUE))

IsPrefix(p, s) == Len(p) <= Len(s) /\ SubSeq(s, 1, Len(p)) = p

\* One URL token of a line under line.replace(old, new): replaced where the
\* text of old occurs in it (old itself, or old followed by further segments).
ReplaceTok(tok, old, new) ==
    IF tok.scheme = old.scheme /\ tok.host = old.host /\ IsPrefix(old.segs, tok.segs)
    THEN Url(new.scheme, new.host,
             new.segs \o SubSeq(tok.segs, Len(old.segs) + 1, Len(tok.segs)))
    ELSE tok

\* line.replace(old_icon_url, new_icon_url)
LineReplace(line, old, new) ==
    [logo |-> ReplaceTok(line.logo, old, new),
     rest |-> [i \in DOMAIN line.rest |-> ReplaceTok(line.rest[i], old, new)]]

\* ------------------------------------------------------------ the dict
\* original_icons is an insertion-ordered dict: a sequence of <<key, value>>
\* with distinct keys.  d[k] = v keeps the position of a key already present.
DictSet(d, k, v) ==
    IF \E i \in DOMAIN d : d[i][1] = k
    THEN [i \in DOMAIN d |-> IF d[i][1] = k THEN <<k, v>> ELSE d[i]]
    ELSE Append(d, <<k, v>>)

DictKeys(d) == {d[i][1] : i \in DOMAIN d}

\* The mapping as a set of <<source url, destination>> pairs.
DictPairs(d) == {d[i] : i \in DOMAIN d}

\* ------------------------------------------------------------ rewriting
\* Mutant of ProcessLine: processed_lines.append(line) sits inside "if match".
ProcessLine_AppendInIf(st, line) ==
    IF line.logo # NoUrl
    THEN IF Matches(line.logo)
         THEN LET old_icon_url == line.logo
                  icon_path == IconPath(line.logo)
                  i1 == DictSet(st.icons, old_icon_url, ICONS_SQR_DIR \o icon_path)
                  i2 == DictSet(i1, ReplaceImg(old_icon_url), ICONS_RECT_DIR \o icon_path)
              IN  [lines |-> Append(st.lines,
                                    LineReplace(line, old_icon_url, NewIconUrl(icon_path))),
                   icons |-> i2, repl |-> st.repl + 1, ext |-> st.ext]
         ELSE [st EXCEPT !.ext = st.ext + 1]
    ELSE st

\* The body of "for line in playlist_lines" for one line: st is
\* [lines, icons, repl, ext] = processed_lines, original_icons,
\* replacements_count, not_replaced_count.
ProcessLine(st, line) ==
    IF line.logo # NoUrl
    THEN IF Matches(line.logo)
         THEN LET old_icon_url == line.logo
                  icon_path == IconPath(line.logo)
                  i1 == DictSet(st.icons, old_icon_url, ICONS_SQR_DIR \o icon_path)
                  i2 == DictSet(i1, ReplaceImg(old_icon_url), ICONS_RECT_DIR \o icon_path)
              IN  [lines |-> Append(st.lines,
                                    LineReplace(line, old_icon_url, NewIconUrl(icon_path))),
                   icons |-> i2, repl |-> st.repl + 1, ext |-> st.ext]
         ELSE [st EXCEPT !.lines = Append(st.lines, line), !.ext = st.ext + 1]
    ELSE [st EXCEPT !.lines = Append(st.lines, line)]

RECURSIVE ProcessFrom(_, _, _)
ProcessFrom(st, lines, k) ==
    IF k > Len(lines) THEN st
    ELSE ProcessFrom(ProcessLine(st, lines[k]), lines, k + 1)

\* The try body of main's loop for one fetched document, given the dict so far.
ProcessLines(lines, icons) ==
    ProcessFrom([lines |-> <<>>, icons |-> icons, repl |-> 0, ext |-> 0], lines, 1)

\* ------------------------------------------------------------ batches
Min(a, b) == IF a < b THEN a ELSE b

\* Mutant of Batches: the number of batches is rounded down.
Batches_Floor(items, bs) ==
    [k \in 1..(Len(items) \div bs) |->
        SubSeq(items, (k - 1) * bs + 1, Min(k * bs, Len(items)))]

\* [items[i:i + batch_size] for i in range(0, len(items), batch_size)]
Batches(items, bs) ==
    [k \in 1..((Len(items) + bs - 1) \div bs) |->
        SubSeq(items, (k - 1) * bs + 1, Min(k * bs, Len(items)))]

\* ------------------------------------------------------------ state
VARIABLES
    ctl,              \* where the main thread is
    repo_name,        \* TRUE when GITHUB_REPOSITORY is set
    pl_idx,           \* index into PLAYLIST_URLS of the next source
    served,           \* per source: what its fetch returned (recorded input)
    files,            \* per source: the output file and the printed counts
    processed_files,  \* indices of the sources whose file was saved
    original_icons,   \* the dict source url -> destination
    is_timeout,       \* timeout_handler.is_timeout
    alarm,            \* "unset", "armed", "fired" or "off" (signal.alarm)
    sig_handler,      \* the installed SIGALRM handler
    batches,          \* the batches submitted to the executor
    wstate,           \* per batch: "queued", "loop", "job" (from the flag check of
                      \* line 124 being passed to the end of the try) or "done"
    bpos,             \* per batch: position of download_icon_batch's for loop
    success,          \* per batch: download_icon_batch's success counter
    jobres,           \* per job (by position in items): "none", "ok" or "fail"
    pending,          \* futures as_completed has not yielded yet
    cur,              \* the future the harvest loop holds (0: none)
    total_downloaded, \* run_download_worker's accumulator
    progress_log,     \* the "Processed: ..." lines printed so far, in order
    exc,              \* "none" or the exception that is propagating
    tally,            \* the final "Download icons done" line, <<>> until printed
    px                \* scratch state of the specifications of the pure parts

vars == <<ctl, repo_name, pl_idx, served, files, processed_files, original_icons,
          is_timeout, alarm, sig_handler, batches, wstate, bpos, success, jobres,
          pending, cur, total_downloaded, progress_log, exc, tally, px>>

plVars == <<pl_idx, served, files, processed_files, original_icons>>
dlVars == <<batches, wstate, bpos, success, jobres, pending, cur, total_downloaded,
           progress_log>>
sigVars == <<is_timeout, alarm, sig_handler>>

\* ------------------------------------------------------------ inputs
Line(logo, rest) == [logo |-> logo, rest |-> rest]

U1 == Url("http", "epg.one", <<"img", "a">>)
U2 == Url("https", "epg.one", <<"img", "a">>)
U3 == Url("http", "epg.one", <<"img", "b">>)
UX == Url("http", "other.tv", <<"img", "a">>)

\* A document with a line without the attribute, a mirrored icon and an
\* external icon; and one with three mirrored icons, the first shared.
DocA == <<Line(NoUrl, <<>>), Line(U1, <<>>), Line(UX, <<>>)>>
DocB == <<Line(U1, <<U1>>), Line(U2, <<>>), Line(U3, <<>>)>>

\* What requests.get + raise_for_status can give for one source: a
\* RequestException (ok = FALSE) or the document's lines.
Responses ==
    {[ok |-> FALSE, lines |-> <<>>],
     [ok |-> TRUE, lines |-> DocA],
     [ok |-> TRUE, lines |-> DocB]}

NoFile == [saved |-> FALSE, lines |-> <<>>, repl |-> 0, ext |-> 0]

\* The state before main() has done anything, but for ctl, repo_name and px.
Idle ==
    /\ pl_idx = 1
    /\ served = <<>>
    /\ files = [i \in 1..NumPlaylists |-> NoFile]
    /\ processed_files = <<>>
    /\ original_icons = <<>>
    /\ is_timeout = FALSE
    /\ alarm = "unset"
    /\ sig_handler = "default"
    /\ batches = <<>>
    /\ wstate = <<>>
    /\ bpos = <<>>
    /\ success = <<>>
    /\ jobres = <<>>
    /\ pending = {}
    /\ cur = 0
    /\ total_downloaded = 0
    /\ progress_log = <<>>
    /\ exc = "none"
    /\ tally = <<>>

Init ==
    /\ ctl = "config"
    /\ repo_name \in BOOLEAN
    /\ Idle
    /\ px = <<>>

\* ------------------------------------------------------------ main()
\* Mutant of CheckConfig: the variable is read but its absence is not fatal.
CheckConfig_NoCheck ==
    /\ ctl = "config"
    /\ ctl' = "playlists"
    /\ UNCHANGED <<repo_name, plVars, sigVars, dlVars, exc, tally, px>>

\* Lines 53-55: the configuration check, before any directory or network use.
CheckConfig ==
    /\ ctl = "config"
    /\ IF repo_name
       THEN ctl' = "playlists" /\ exc' = exc
       ELSE ctl' = "fatal" /\ exc' = "ValueError"
    /\ UNCHANGED <<repo_name, plVars, sigVars, dlVars, tally, px>>

\* Mutant of PlaylistStep: the RequestException is not caught.
PlaylistStep_Abort(r, icons) ==
    IF r.ok
    THEN LET res == ProcessLines(r.lines, icons)
         IN  [file |-> [saved |-> TRUE, lines |-> res.lines,
                        repl |-> res.repl, ext |-> res.ext],
              icons |-> res.icons, aborts |-> FALSE]
    ELSE [file |-> NoFile, icons |-> icons, aborts |-> TRUE]

\* What one iteration of "for url in PLAYLIST_URLS" does with response r:
\* [file, icons, saved].
PlaylistStep(r, icons) ==
    IF r.ok
    THEN LET res == ProcessLines(r.lines, icons)
         IN  [file |-> [saved |-> TRUE, lines |-> res.lines,
                        repl |-> res.repl, ext |-> res.ext],
              icons |-> res.icons, aborts |-> FALSE]
    ELSE [file |-> NoFile, icons |-> icons, aborts |-> FALSE]

\* Lines 69-113: one source, fetched, rewritten and written, or skipped on a
\* RequestException.
ProcessPlaylist ==
    /\ ctl = "playlists"
    /\ pl_idx <= NumPlaylists
    /\ \E r \in Responses :
          LET step == PlaylistStep(r, original_icons)
          IN  /\ served' = Append(served, r)
              /\ files' = [files EXCEPT ![pl_idx] = step.file]
              /\ processed_files' = IF step.file.saved
                                    THEN Append(processed_files, pl_idx)
                                    ELSE processed_files
              /\ original_icons' = step.icons
              /\ IF step.aborts
                 THEN ctl' = "fatal" /\ exc' = "RequestException"
                 ELSE ctl' = ctl /\ exc' = exc
    /\ pl_idx' = pl_idx + 1
    /\ UNCHANGED <<repo_name, sigVars, dlVars, tally, px>>

\* Lines 115-118 with an empty dict: nothing to download.
NoIcons ==
    /\ ctl = "playlists"
    /\ pl_idx > NumPlaylists
    /\ Len(original_icons) = 0
    /\ ctl' = "done"
    /\ UNCHANGED <<repo_name, plVars, sigVars, dlVars, exc, tally, px>>

\* ------------------------------------------------------------ run_download_worker()
NumJobs == Len(original_icons)

\* The position in items of job j of batch b.
JobOf(b, j) == (b - 1) * batch_size + j

\* Lines 138-161: the batches are cut, the alarm is armed (timeout_context's
\* entry) and every batch is submitted to the executor.
StartDownload ==
    /\ ctl = "playlists"
    /\ pl_idx > NumPlaylists
    /\ Len(original_icons) > 0
    /\ LET bs == Batches(original_icons, batch_size)
       IN  /\ batches' = bs
           /\ wstate' = [b \in DOMAIN bs |-> "queued"]
           /\ bpos' = [b \in DOMAIN bs |-> 1]
           /\ success' = [b \in DOMAIN bs |-> 0]
           /\ pending' = DOMAIN bs
    /\ jobres' = [j \in 1..NumJobs |-> "none"]
    /\ sig_handler' = "timeout_handler"
    /\ alarm' = "armed"
    /\ ctl' = "iter"
    /\ UNCHANGED <<repo_name, plVars, is_timeout, cur, total_downloaded,
                   progress_log, exc, tally, px>>

\* ------------------------------------------------------------ download_icon_batch()
Running == {b \in DOMAIN wstate : wstate[b] \in {"loop", "job"}}

\* Mutant of StartBatch: a thread per submitted batch, no max_workers limit.
StartBatch_NoLimit(b) ==
    /\ ctl \in {"iter", "check", "body", "shutdown"}
    /\ b \in DOMAIN wstate
    /\ wstate[b] = "queued"
    /\ wstate' = [wstate EXCEPT ![b] = "loop"]
    /\ UNCHANGED <<ctl, repo_name, plVars, sigVars, batches, bpos, success, jobres,
                   pending, cur, total_downloaded, progress_log, exc, tally, px>>

\* A pool thread takes the oldest queued batch (the executor's queue is FIFO)
\* when fewer than max_workers batches are running.
StartBatch(b) ==
    /\ ctl \in {"iter", "check", "body", "shutdown"}
    /\ b \in DOMAIN wstate
    /\ wstate[b] = "queued"
    /\ \A c \in DOMAIN wstate : c < b => wstate[c] # "queued"
    /\ Cardinality(Running) < ICON_DOWNLOAD_WORKERS
    /\ wstate' = [wstate EXCEPT ![b] = "loop"]
    /\ UNCHANGED <<ctl, repo_name, plVars, sigVars, batches, bpos, success, jobres,
                   pending, cur, total_downloaded, progress_log, exc, tally, px>>

\* Mutant of LoopHead: the flag is not polled between jobs.
LoopHead_NoFlag(b) ==
    /\ b \in DOMAIN wstate
    /\ wstate[b] = "loop"
    /\ wstate' = [wstate EXCEPT ![b] =
                     IF bpos[b] > Len(batches[b]) THEN "done" ELSE "job"]
    /\ UNCHANGED <<ctl, repo_name, plVars, sigVars, batches, bpos, success, jobres,
                   pending, cur, total_downloaded, progress_log, exc, tally, px>>

\* Lines 123-125 and 136: the head of the for loop.  The batch returns when
\* its items are exhausted or the flag is set; otherwise the next job starts.
LoopHead(b) ==
    /\ b \in DOMAIN wstate
    /\ wstate[b] = "loop"
    /\ wstate' = [wstate EXCEPT ![b] =
                     IF bpos[b] > Len(batches[b]) \/ is_timeout THEN "done" ELSE "job"]
    /\ UNCHANGED <<ctl, repo_name, plVars, sigVars, batches, bpos, success, jobres,
                   pending, cur, total_downloaded, progress_log, exc, tally, px>>

\* Mutant of ItemAt: the batch is walked from its end.
ItemAt_Reversed(b, p) == JobOf(b, Len(batches[b]) - p + 1)

\* Line 123: the item the p-th iteration of "for url, save_path in
\* batch_items" of batch b handles, as a position in items.
ItemAt(b, p) == JobOf(b, p)

\* Mutant of JobOutcome: success is counted whether or not the job threw.
JobOutcome_CountAll(ok, s) ==
    [success |-> s + 1, raises |-> FALSE]

\* Mutant of JobOutcome: no except clause, the job's exception leaves the batch.
JobOutcome_Propagate(ok, s) ==
    [success |-> IF ok THEN s + 1 ELSE s, raises |-> ~ok]

\* Lines 126-135 for one job whose mkdir/get/write went through (ok) or threw:
\* the new success counter, and whether an exception leaves the batch.
JobOutcome(ok, s) ==
    [success |-> IF ok THEN s + 1 ELSE s, raises |-> FALSE]

\* Mutant of FinishJob: a failed (or timed out) job also sets the shared flag.
FinishJob_SetsFlag(b) ==
    /\ b \in DOMAIN wstate
    /\ wstate[b] = "job"
    /\ \E ok \in BOOLEAN :
          LET o == JobOutcome(ok, success[b])
          IN  /\ jobres' = [jobres EXCEPT ![ItemAt(b, bpos[b])] =
                               IF ok THEN "ok" ELSE "fail"]
              /\ success' = [success EXCEPT ![b] = o.success]
              /\ wstate' = [wstate EXCEPT ![b] = IF o.raises THEN "raised" ELSE "loop"]
              /\ is_timeout' = (is_timeout \/ ~ok)
    /\ bpos' = [bpos EXCEPT ![b] = bpos[b] + 1]
    /\ UNCHANGED <<ctl, repo_name, plVars, alarm, sig_handler, batches,
                   pending, cur, total_downloaded, progress_log, exc, tally, px>>

\* The job in flight ends; the bare except swallows whatever it threw.
FinishJob(b) ==
    /\ b \in DOMAIN wstate
    /\ wstate[b] = "job"
    /\ \E ok \in BOOLEAN :
          LET o == JobOutcome(ok, success[b])
          IN  /\ jobres' = [jobres EXCEPT ![ItemAt(b, bpos[b])] =
                               IF ok THEN "ok" ELSE "fail"]
              /\ success' = [success EXCEPT ![b] = o.success]
              /\ wstate' = [wstate EXCEPT ![b] = IF o.raises THEN "raised" ELSE "loop"]
    /\ bpos' = [bpos EXCEPT ![b] = bpos[b] + 1]
    /\ UNCHANGED <<ctl, repo_name, plVars, sigVars, batches,
                   pending, cur, total_downloaded, progress_log, exc, tally, px>>

\* ------------------------------------------------------------ the deadline
\* SIGALRM is delivered: TimeoutHandler.handler sets the flag (lines 31-33).
Alarm ==
    /\ alarm = "armed"
    /\ alarm' = "fired"
    /\ is_timeout' = (sig_handler = "timeout_handler" \/ is_timeout)
    /\ UNCHANGED <<ctl, repo_name, plVars, sig_handler, dlVars, exc, tally, px>>

\* ------------------------------------------------------------ the harvest loop
Finished(b) == wstate[b] \in {"done", "raised"}

\* Line 163: as_completed yields a finished future not yielded before.
Yield(b) ==
    /\ ctl = "iter"
    /\ b \in pending
    /\ Finished(b)
    /\ pending' = pending \ {b}
    /\ cur' = b
    /\ ctl' = "check"
    /\ UNCHANGED <<repo_name, plVars, sigVars, batches, wstate, bpos, success, jobres,
                   total_downloaded, progress_log, exc, tally, px>>

\* Line 163: every future was yielded; the for loop ends.
Exhausted ==
    /\ ctl = "iter"
    /\ pending = {}
    /\ ctl' = "shutdown"
    /\ UNCHANGED <<repo_name, plVars, sigVars, dlVars, exc, tally, px>>

\* Whether as_completed's own timeout can have elapsed.  Its clock starts at
\* the first next(), after the alarm of the same length was armed, so it
\* elapses only once SIGALRM was delivered.
IterTimeoutElapsed == alarm = "fired"

\* Line 163: as_completed(..., timeout=ICONS_DOWNLOAD_TIMEOUT) runs out with
\* futures still unfinished; its TimeoutError is raised by the for statement,
\* outside the try of lines 166-178.
IterTimeout ==
    /\ ctl = "iter"
    /\ IterTimeoutElapsed
    /\ \E b \in pending : ~Finished(b)
    /\ exc' = "TimeoutError"
    /\ ctl' = "shutdown"
    /\ UNCHANGED <<repo_name, plVars, sigVars, dlVars, tally, px>>

\* Lines 164-165.
CheckFlag ==
    /\ ctl = "check"
    /\ ctl' = IF is_timeout THEN "shutdown" ELSE "body"
    /\ UNCHANGED <<repo_name, plVars, sigVars, dlVars, exc, tally, px>>

\* Mutant of HarvestAdd: the batch result overwrites the accumulator.
HarvestAdd_Lost(total, successful) == successful

\* Mutant of HarvestAdd: the batch result is added twice.
HarvestAdd_Twice(total, successful) == total + successful + successful

\* Line 169.
HarvestAdd(total, successful) == total + successful

\* Line 172: ((batch_idx + 1) / len(batches)) * 100 for the batch submitted
\* as number b (b = batch_idx + 1), in tenths of a percent as printed.
Progress(b, n) == (b * 1000) \div n

\* Lines 166-178: the result of the yielded future is added and the progress
\* line is printed; an exception the future holds is caught and printed.
Harvest ==
    /\ ctl = "body"
    /\ IF wstate[cur] = "done"
       THEN /\ total_downloaded' = HarvestAdd(total_downloaded, success[cur])
            /\ progress_log' = Append(progress_log,
                                      [batch |-> cur,
                                       progress |-> Progress(cur, Len(batches)),
                                       downloaded |-> total_downloaded'])
       ELSE UNCHANGED <<total_downloaded, progress_log>>
    /\ ctl' = "iter"
    /\ UNCHANGED <<repo_name, plVars, sigVars, batches, wstate, bpos, success, jobres,
                   pending, cur, exc, tally, px>>

\* Mutant of LeaveDownload: the executor is shut down without waiting.
LeaveDownload_NoJoin ==
    /\ ctl = "shutdown"
    /\ alarm' = IF alarm = "armed" THEN "off" ELSE alarm
    /\ sig_handler' = "default"
    /\ IF exc = "none"
       THEN /\ tally' = <<total_downloaded, NumJobs>>
            /\ ctl' = "done"
       ELSE /\ tally' = tally
            /\ ctl' = "raised"
    /\ UNCHANGED <<repo_name, plVars, is_timeout, dlVars, exc, px>>

\* The with blocks are left: the executor's shutdown(wait=True) has joined
\* every pool thread (queued batches still run), timeout_context's finally
\* cancels the alarm and restores the handler (lines 45-47), and either the
\* exception goes on through main or line 180 prints the tally.
LeaveDownload ==
    /\ ctl = "shutdown"
    /\ \A b \in DOMAIN wstate : Finished(b)
    /\ alarm' = IF alarm = "armed" THEN "off" ELSE alarm
    /\ sig_handler' = "default"
    /\ IF exc = "none"
       THEN /\ tally' = <<total_downloaded, NumJobs>>
            /\ ctl' = "done"
       ELSE /\ tally' = tally
            /\ ctl' = "raised"
    /\ UNCHANGED <<repo_name, plVars, is_timeout, dlVars, exc, px>>

\* ------------------------------------------------------------ specification
Worker == \E b \in DOMAIN wstate : StartBatch(b) \/ LoopHead(b) \/ FinishJob(b)

Controller ==
    \/ CheckConfig
    \/ ProcessPlaylist
    \/ NoIcons
    \/ StartDownload
    \/ \E b \in pending : Yield(b)
    \/ Exhausted
    \/ CheckFlag
    \/ Harvest
    \/ LeaveDownload

Next == Controller \/ Worker \/ Alarm \/ IterTimeout

Spec == Init /\ [][Next]_vars

\* The threads are scheduled and every fetch ends; the deadline is a timer
\* and need not fire.
FairSpec == Spec /\ WF_vars(Controller) /\ WF_vars(Worker)

\* ------------------------------------------------------------ the pure parts
\* Bounds of the inputs drawn below.
MaxSegs == 4
MaxItems == 5

mainVars == <<ctl, repo_name, pl_idx, served, files, processed_files, original_icons,
              is_timeout, alarm, sig_handler, batches, wstate, bpos, success, jobres,
              pending, cur, total_downloaded, progress_log, exc, tally>>

Pure == ctl = "pure" /\ repo_name = TRUE /\ Idle

SegNames == {"img", "img2", "a"}

SeqsUpTo(S, n) == UNION {[1..k -> S] : k \in 0..n}

\* tvg-logo values: recognized and external ones.
LogoUrls ==
    {Url(s, h, p) : s \in {"http", "https", "ftp"}, h \in {"epg.one", "other.tv"},
                    p \in SeqsUpTo(SegNames, MaxSegs)}

\* The recognized ones.
IconUrls == {u \in LogoUrls : Matches(u)}

\* A dict as main() can hold when a line is reached.
SomeIcons == ProcessLines(<<Line(U3, <<>>)>>, <<>>).icons

\* --- one line through the loop body of lines 81-96
InitRewrite ==
    /\ Pure
    /\ \E l \in LogoUrls \cup {NoUrl}, r \in {<<>>, <<U1>>}, d \in {<<>>, SomeIcons} :
          px = [stage |-> "in", line |-> Line(l, r), icons |-> d,
                res |-> [lines |-> <<>>, icons |-> d, repl |-> 0, ext |-> 0]]

RewriteLine ==
    /\ ctl = "pure"
    /\ px.stage = "in"
    /\ px' = [px EXCEPT !.stage = "out", !.res = ProcessLine(px.res, px.line)]
    /\ UNCHANGED mainVars

SpecRewrite == InitRewrite /\ [][RewriteLine]_vars

\* --- two sources merged into the dict in both orders, and the first again
InitMerge ==
    /\ Pure
    /\ \E a \in IconUrls, b \in IconUrls :
          px = [stage |-> 0, a |-> <<Line(a, <<>>)>>, b |-> <<Line(b, <<>>)>>,
                ab |-> <<>>, ba |-> <<>>, aba |-> <<>>]

MergeFirst ==
    /\ ctl = "pure"
    /\ px.stage = 0
    /\ px' = [px EXCEPT !.stage = 1,
                        !.ab = ProcessLines(px.a, <<>>).icons,
                        !.ba = ProcessLines(px.b, <<>>).icons]
    /\ UNCHANGED mainVars

MergeSecond ==
    /\ ctl = "pure"
    /\ px.stage = 1
    /\ px' = [px EXCEPT !.stage = 2,
                        !.ab = ProcessLines(px.b, px.ab).icons,
                        !.ba = ProcessLines(px.a, px.ba).icons]
    /\ UNCHANGED mainVars

MergeAgain ==
    /\ ctl = "pure"
    /\ px.stage = 2
    /\ px' = [px EXCEPT !.stage = 3, !.aba = ProcessLines(px.a, px.ab).icons]
    /\ UNCHANGED mainVars

SpecMerge == InitMerge /\ [][MergeFirst \/ MergeSecond \/ MergeAgain]_vars

\* --- a list of items cut into batches (line 142)
InjectiveSeqs(n) ==
    {s \in SeqsUpTo(1..n, n) : \A i, j \in DOMAIN s : i # j => s[i] # s[j]}

InitBatch ==
    /\ Pure
    /\ \E items \in InjectiveSeqs(MaxItems) :
          px = [stage |-> "items", items |-> items, batches |-> <<>>]

CutBatches ==
    /\ ctl = "pure"
    /\ px.stage = "items"
    /\ px' = [px EXCEPT !.stage = "cut", !.batches = Batches(px.items, batch_size)]
    /\ UNCHANGED mainVars

SpecBatch == InitBatch /\ [][CutBatches]_vars

\* ------------------------------------------------------------ claims
\* The jobs (positions in items) of batch b.
JobsOf(b) == {JobOf(b, j) : j \in DOMAIN batches[b]}

Succeeded == {j \in DOMAIN jobres : jobres[j] = "ok"}

\* C1: once the deadline has fired with batches outstanding, the download
\* phase is left normally, marked timed out: no exception, the harvest
\* iterator's TimeoutError included, is propagating or has escaped.
C1_DeadlineReturnsNormally ==
    (alarm = "fired" /\ ctl \in {"shutdown", "done", "raised"})
        => (exc = "none" /\ ctl # "raised" /\ is_timeout)

\* C2: under fair scheduling of the threads, a download phase that has
\* started eventually ends with the final tally printed.
C2_EndsWithTally == (ctl = "iter") ~> (ctl = "done" /\ tally # <<>>)

\* C3: the accumulated count never exceeds the number of jobs, and neither
\* does the count of the printed tally.
C3_CountAtMostJobs ==
    /\ total_downloaded <= NumJobs
    /\ tally # <<>> => tally[1] <= tally[2] /\ tally[2] = NumJobs

C3_Witness == ctl = "done" /\ NumJobs > batch_size /\ total_downloaded = NumJobs

\* C4: when neither the deadline fired nor the harvest iterator timed out, the
\* final count is the number of jobs whose fetch succeeded.
C4_CountIsSuccesses ==
    (tally # <<>> /\ alarm # "fired" /\ exc = "none")
        => tally[1] = Cardinality(Succeeded)

C4_Witness ==
    /\ tally # <<>> /\ alarm # "fired"
    /\ Cardinality(DOMAIN batches) >= 2
    /\ tally[1] >= 2
    /\ \E j \in DOMAIN jobres : jobres[j] = "fail"

\* C5: a failing job never makes its batch raise; it is left uncounted, and a
\* batch that returned while the flag was unset has attempted every one of its
\* jobs.
C5_JobFailureAbsorbed ==
    \A b \in DOMAIN wstate :
        /\ wstate[b] # "raised"
        /\ success[b] = Cardinality(JobsOf(b) \cap Succeeded)
        /\ (wstate[b] = "done" /\ ~is_timeout)
              => \A j \in JobsOf(b) : jobres[j] # "none"

C5_Witness ==
    \E b \in DOMAIN wstate :
        /\ wstate[b] = "done" /\ ~is_timeout
        /\ Len(batches[b]) >= 2
        /\ jobres[JobOf(b, 1)] = "fail"
        /\ jobres[JobOf(b, 2)] = "ok"

\* C6: the batches, concatenated in order, are the item list; every batch but
\* the last has batch_size entries and none is empty.
RECURSIVE Concat(_, _)
Concat(bs, k) == IF k > Len(bs) THEN <<>> ELSE bs[k] \o Concat(bs, k + 1)

C6_PartitionExact ==
    px.stage = "cut" =>
        /\ Concat(px.batches, 1) = px.items
        /\ \A k \in DOMAIN px.batches :
              /\ Len(px.batches[k]) >= 1
              /\ Len(px.batches[k]) <= batch_size
              /\ k < Len(px.batches) => Len(px.batches[k]) = batch_size

C6_Witness ==
    /\ px.stage = "cut"
    /\ Len(px.batches) >= 2
    /\ Len(px.batches[Len(px.batches)]) < batch_size

\* C7: the merged dict holds one job per distinct source url, the same
\* mapping in either merge order, unchanged by merging a source again.
C7_MergeOrderIndependent ==
    px.stage = 3 =>
        /\ Cardinality(DictKeys(px.ab)) = Len(px.ab)
        /\ DictPairs(px.ab) = DictPairs(px.ba)
        /\ DictPairs(px.aba) = DictPairs(px.ab)

\* C8: a matching line is rewritten to the mirror url of its path and adds
\* exactly the square mapping url -> img/<path> and the rectangular mapping
\* scheme://host/img2/<path> -> img2/<path>.
C8_TwoMappings ==
    (px.stage = "out" /\ px.icons = <<>> /\ Matches(px.line.logo)) =>
        LET path == IconPath(px.line.logo)
        IN  /\ px.res.lines[1].logo = NewIconUrl(path)
            /\ DictPairs(px.res.icons) =
                  {<<px.line.logo, <<"img">> \o path>>,
                   <<Url(px.line.logo.scheme, px.line.logo.host, <<"img2">> \o path),
                     <<"img2">> \o path>>}

\* C9: a line that does not match comes out as it went in and adds no
\* mapping; with the attribute it is counted as external, without it not.
C9_OtherLinesUnchanged ==
    (px.stage = "out" /\ ~(px.line.logo # NoUrl /\ Matches(px.line.logo))) =>
        /\ px.res.lines = <<px.line>>
        /\ px.res.icons = px.icons
        /\ px.res.repl = 0
        /\ px.res.ext = IF px.line.logo # NoUrl THEN 1 ELSE 0

C9_Witness ==
    /\ px.stage = "out"
    /\ px.line.logo.host = "other.tv" /\ px.line.logo.scheme = "http"
    /\ Len(px.line.logo.segs) >= 2 /\ px.line.logo.segs[1] = "img"
    /\ px.line.rest # <<>>
    /\ px.icons # <<>>

\* C10: a source whose fetch failed has no file and no mapping, every other
\* source has its file and its mappings, and the run goes on to the end of
\* the list.
OwnKeys(i) == DictKeys(ProcessLines(served[i].lines, <<>>).icons)

C10_FetchFailureIsolated ==
    /\ \A i \in DOMAIN served :
          IF served[i].ok
          THEN /\ files[i].saved
               /\ files[i].lines = ProcessLines(served[i].lines, <<>>).lines
               /\ OwnKeys(i) \subseteq DictKeys(original_icons)
               /\ \E k \in DOMAIN processed_files : processed_files[k] = i
          ELSE /\ files[i] = NoFile
               /\ \A k \in DOMAIN processed_files : processed_files[k] # i
    /\ DictKeys(original_icons) = UNION {OwnKeys(i) : i \in {k \in DOMAIN served : served[k].ok}}
    /\ ctl = "fatal" => served = <<>>
    /\ ctl \notin {"config", "fatal", "playlists"} => Len(served) = NumPlaylists

C10_Witness ==
    /\ ctl = "done"
    /\ \E i, j \in DOMAIN served : i < j /\ ~served[i].ok /\ served[j].ok
    /\ tally # <<>>

\* C11: with the configuration identifier missing the run is fatal at once:
\* no playlist is ever fetched and no batch is ever submitted.
C11_NoNetworkWithoutConfig ==
    ~repo_name =>
        /\ ctl \in {"config", "fatal"}
        /\ served = <<>>
        /\ files = [i \in 1..NumPlaylists |-> NoFile]
        /\ batches = <<>> /\ wstate = <<>> /\ jobres = <<>>
        /\ alarm = "unset"

C11_Witness == ~repo_name /\ ctl = "fatal" /\ exc = "ValueError"

\* C12 as stated: once the flag is set it stays set, no worker starts a job
\* not yet started, and the controller adds no further batch.
C12_NothingAfterFlag ==
    [][is_timeout =>
          /\ is_timeout'
          /\ \A b \in DOMAIN wstate : wstate'[b] = "job" => wstate[b] = "job"
          /\ total_downloaded' = total_downloaded
          /\ progress_log' = progress_log]_vars

\* C12 as amended: once the flag is set it stays set, no worker passes the
\* flag check into a further job, and the controller adds no batch other than
\* the one whose flag check it had passed before the flag was set.
C12_CooperativeSticky ==
    [][is_timeout =>
          /\ is_timeout'
          /\ \A b \in DOMAIN wstate : wstate'[b] = "job" => wstate[b] = "job"
          /\ (total_downloaded' # total_downloaded \/ progress_log' # progress_log)
                => (ctl = "body" /\ ctl' = "iter")
          /\ ctl' = "body" => ctl = "body"]_vars

C12_Witness ==
    /\ is_timeout
    /\ ctl = "shutdown" /\ exc = "none"
    /\ pending # {}
    /\ \E b \in DOMAIN wstate :
          /\ wstate[b] = "done"
          /\ bpos[b] = 2 /\ Len(batches[b]) >= 2
          /\ jobres[JobOf(b, 1)] # "none"

\* C13: never more than ICON_DOWNLOAD_WORKERS batches are executing (so they
\* fit on that many units, one batch each), a batch stays queued only while
\* that many are executing or an older one is queued, and under fair
\* scheduling every submitted batch leaves the queue.
C13_BoundedPool ==
    /\ [](Cardinality(Running) <= ICON_DOWNLOAD_WORKERS)
    /\ [][\A b \in DOMAIN wstate :
            (wstate[b] = "queued" /\ wstate'[b] # "queued")
                => (wstate'[b] = "loop"
                    /\ Cardinality(Running) < ICON_DOWNLOAD_WORKERS)]_vars
    /\ (ctl = "iter") ~> (\A b \in DOMAIN wstate : wstate[b] # "queued")

C13_Witness ==
    /\ Cardinality(Running) = ICON_DOWNLOAD_WORKERS
    /\ \E b \in DOMAIN wstate : wstate[b] = "queued"

\* C14: in every batch the jobs that have ended are exactly those before the
\* loop position, at most the one at the position is in flight, and none
\* after it has started: job k + 1 starts only after job k has ended.
C14_SequentialInBatch ==
    \A b \in DOMAIN wstate :
        /\ bpos[b] \in 1..(Len(batches[b]) + 1)
        /\ wstate[b] = "job" => bpos[b] <= Len(batches[b])
        /\ wstate[b] = "queued" => bpos[b] = 1
        /\ \A j \in DOMAIN batches[b] :
              (jobres[JobOf(b, j)] # "none") <=> (j < bpos[b])

C14_Witness ==
    \E b \in DOMAIN wstate :
        /\ wstate[b] = "job" /\ bpos[b] = 2
        /\ jobres[JobOf(b, 1)] # "none" /\ jobres[JobOf(b, 2)] = "none"
        /\ \E c \in DOMAIN wstate : c # b /\ wstate[c] = "job"

\* C15: no two jobs of the merged job set have the same destination path.
C15_DestinationsDistinct ==
    \A i, j \in DOMAIN original_icons :
        i # j => original_icons[i][2] # original_icons[j][2]

\* C16: a timeout of the controller's wait for a batch is absorbed: the
\* harvest loop is left only when every batch was yielded or by the break of
\* the deadline check, never with an exception, and the count is untouched.
C16_WaitTimeoutAbsorbed ==
    [][(ctl # "shutdown" /\ ctl' = "shutdown") =>
          /\ (ctl = "iter" /\ pending = {}) \/ (ctl = "check" /\ is_timeout)
          /\ exc' = "none"
          /\ total_downloaded' = total_downloaded]_vars

\* C17: the counter is the sum of the results of the batches harvested so
\* far, each harvested once and only when finished, and it never decreases.
Harvested == {progress_log[k].batch : k \in DOMAIN progress_log}

RECURSIVE SumSuccess(_)
SumSuccess(B) ==
    IF B = {} THEN 0
    ELSE LET b == CHOOSE x \in B : TRUE
         IN  success[b] + SumSuccess(B \ {b})

C17_CounterIsSum ==
    /\ [](/\ total_downloaded = SumSuccess(Harvested)
          /\ Cardinality(Harvested) = Len(progress_log)
          /\ \A b \in Harvested : wstate[b] = "done" /\ b \notin pending
          /\ \A k \in DOMAIN progress_log :
                progress_log[k].downloaded =
                    SumSuccess({progress_log[i].batch : i \in 1..k}))
    /\ [][total_downloaded' >= total_downloaded]_vars

C17_Witness ==
    /\ Len(progress_log) >= 2
    /\ progress_log[1].batch > progress_log[2].batch
    /\ progress_log[1].downloaded >= 1
    /\ progress_log[2].downloaded > progress_log[1].downloaded

\* C18: only the delivery of the deadline signal changes the flag: no job
\* failure, no harvest step and no iterator timeout does.
C18_OnlyWatchdogSetsFlag ==
    [][is_timeout' # is_timeout =>
          (alarm = "armed" /\ alarm' = "fired" /\ is_timeout')]_vars

C18_Witness ==
    /\ ~is_timeout /\ alarm = "off"
    /\ ctl = "done"
    /\ \E j \in DOMAIN jobres : jobres[j] = "fail"

\* C19: the printed progress never decreases from one harvest to the next and
\* is 100% only on the harvest of the last outstanding batch.
C19_ProgressMonotone ==
    \A k \in DOMAIN progress_log :
        /\ k > 1 => progress_log[k - 1].progress <= progress_log[k].progress
        /\ progress_log[k].progress = 1000 => k = Len(batches)

\* C20: when the download phase has been left, with the tally or with an
\* exception, every batch has returned, the alarm is not armed and the
\* default handler is back.
C20_CleanExit ==
    (ctl \in {"done", "raised"} /\ batches # <<>>) =>
        /\ \A b \in DOMAIN wstate : wstate[b] \in {"done", "raised"}
        /\ alarm \in {"fired", "off"}
        /\ sig_handler = "default"

C20_Witness ==
    /\ ctl = "raised" /\ exc = "TimeoutError"
    /\ Len(batches) >= 2
    /\ \E b \in DOMAIN wstate : bpos[b] > 1
    /\ sig_handler = "default"

====
